---- MODULE Spec2Model ----
(***************************************************************************)
(* Tokyo CinePath, cinema-scraper: the showtime ingestion and status       *)
(* derivation pipeline (main.go, models.go) as a state machine.            *)
(*                                                                         *)
(* The store is the SQLite database (tables Cinema, Movie, Schedule).  One *)
(* process runs at a time: main() seeds the store, then runs one batch     *)
(* mode to completion.  The eiga.com pages and the TMDB / OMDb / Douban    *)
(* answers are inputs.  Store writes are taken to succeed (local SQLite    *)
(* file); CreatedAt / UpdatedAt columns are not modelled, no code reads    *)
(* them.                                                                   *)
(*                                                                         *)
(* Representation of Go values:                                            *)
(*   - a text the code inspects (TrimSpace, IndexAny, slicing, parsing) is *)
(*     a sequence of one-character strings; other strings are opaque;      *)
(*   - a float rating is an integer number of tenths (81 is 8.1);          *)
(*   - a calendar date is <<year, month, day>>, which orders as the        *)
(*     "2006-01-02" text does; a Schedule PlayDate is the number of days   *)
(*     since 1970-01-01 of its UTC midnight; an instant is in hours since  *)
(*     1970-01-01 00:00 UTC.                                               *)
(***************************************************************************)
EXTENDS Integers, Sequences, FiniteSets, Bags, TLC

VARIABLES
    runs,       \* how many times the program was started
    cinemas,    \* table Cinema: sequence of rows, ID = index
    movies,     \* table Movie: sequence of rows, ID = index
    schedules,  \* table Schedule: bag of rows [MovieID, CinemaID, PlayDate, StartTime]
    now,        \* local wall clock [day, hour] read by time.Now()
    utcOffset,  \* UTC offset in hours of the process's local zone
    pc,         \* position of the running process ("idle": none runs)
    site,       \* the eiga.com pages served to the schedule crawl
    pos,        \* crawl position [page, sec, cinema]
    movie,      \* the callback's in-memory Movie (with its ID), or NoMovie
    ev,         \* what the last step did (observation only)
    snap        \* the store at the start of the current / last schedule crawl

vars == <<runs, cinemas, movies, schedules, now, utcOffset, pc, site, pos, movie, ev, snap>>

(***************************************************************************)
(* Generic helpers                                                         *)
(***************************************************************************)
Min(S) == CHOOSE x \in S : \A y \in S : x <= y

Max(S) == CHOOSE x \in S : \A y \in S : x >= y

Range(s) == {s[i] : i \in DOMAIN s}

Contains(s, c) == \E i \in DOMAIN s : s[i] = c

Digits == <<"0", "1", "2", "3", "4", "5", "6", "7", "8", "9">>

IsDigit(c) == \E i \in DOMAIN Digits : Digits[i] = c

DigitVal(c) == (CHOOSE i \in DOMAIN Digits : Digits[i] = c) - 1

AllDigits(s) == \A i \in DOMAIN s : IsDigit(s[i])

RECURSIVE Atoi(_)
Atoi(s) ==
    IF s = <<>> THEN 0
    ELSE 10 * Atoi(SubSeq(s, 1, Len(s) - 1)) + DigitVal(s[Len(s)])

(***************************************************************************)
(* Go's time package, as far as the code uses it                           *)
(***************************************************************************)
ZeroTime == <<1, 1, 1>>

IsZero(t) == t = ZeroTime

IsLeap(y) == (y % 4 = 0 /\ y % 100 # 0) \/ y % 400 = 0

DaysIn(y, m) ==
    IF m = 2 THEN (IF IsLeap(y) THEN 29 ELSE 28)
    ELSE IF m \in {4, 6, 9, 11} THEN 30 ELSE 31

ValidDate(y, m, d) == m \in 1..12 /\ d >= 1 /\ d <= DaysIn(y, m)

\* days since 1970-01-01 of the civil date y-m-d
DaysFromCivil(y, m, d) ==
    LET yy  == IF m <= 2 THEN y - 1 ELSE y
        era == yy \div 400
        yoe == yy - era * 400
        mp  == IF m > 2 THEN m - 3 ELSE m + 9
        doy == (153 * mp + 2) \div 5 + d - 1
        doe == yoe * 365 + yoe \div 4 - yoe \div 100 + doy
    IN  era * 146097 + doe - 719468

\* t.Format("2006-01-02") of the UTC midnight of day z: <<year, month, day>>
Format(z) ==
    LET zz  == z + 719468
        era == zz \div 146097
        doe == zz - era * 146097
        yoe == (doe - doe \div 1460 + doe \div 36524 - doe \div 146096) \div 365
        doy == doe - (365 * yoe + yoe \div 4 - yoe \div 100)
        mp  == (5 * doy + 2) \div 153
        d   == doy - (153 * mp + 2) \div 5 + 1
        m   == IF mp < 10 THEN mp + 3 ELSE mp - 9
        y   == yoe + era * 400 + (IF m <= 2 THEN 1 ELSE 0)
    IN  <<y, m, d>>

\* Go's string order on two "2006-01-02" texts
StrLess(a, b) ==
    \/ a[1] < b[1]
    \/ a[1] = b[1] /\ a[2] < b[2]
    \/ a[1] = b[1] /\ a[2] = b[2] /\ a[3] < b[3]

StrLessEq(a, b) == a = b \/ StrLess(a, b)

\* time.Parse("20060102", s): [ok, day]
ParseCompact(s) ==
    IF Len(s) = 8 /\ AllDigits(s)
    THEN LET y == Atoi(SubSeq(s, 1, 4))
             m == Atoi(SubSeq(s, 5, 6))
             d == Atoi(SubSeq(s, 7, 8))
         IN  IF ValidDate(y, m, d)
             THEN [ok |-> TRUE, day |-> DaysFromCivil(y, m, d)]
             ELSE [ok |-> FALSE, day |-> 0]
    ELSE [ok |-> FALSE, day |-> 0]

\* time.Parse("2006-01-02", s): [ok, date]
ParseDashed(s) ==
    IF /\ Len(s) = 10
       /\ s[5] = "-" /\ s[8] = "-"
       /\ AllDigits(SubSeq(s, 1, 4)) /\ AllDigits(SubSeq(s, 6, 7))
       /\ AllDigits(SubSeq(s, 9, 10))
    THEN LET y == Atoi(SubSeq(s, 1, 4))
             m == Atoi(SubSeq(s, 6, 7))
             d == Atoi(SubSeq(s, 9, 10))
         IN  IF ValidDate(y, m, d)
             THEN [ok |-> TRUE, date |-> <<y, m, d>>]
             ELSE [ok |-> FALSE, date |-> ZeroTime]
    ELSE [ok |-> FALSE, date |-> ZeroTime]

\* the instant (hours since the epoch, UTC) of local wall clock w at offset off
Instant(w, off) == w.day * 24 + w.hour - off

\* t.AddDate(0, 0, k): same local time of day, k days later
AddDate(w, k) == [w EXCEPT !.day = @ + k]

\* the instant of a PlayDate (UTC midnight of day z)
PlayInstant(z) == z * 24

\* t.Truncate(24 * time.Hour) on an instant
Truncate24(i) == i - (i % 24)

(***************************************************************************)
(* Bounds and input sets                                                   *)
(***************************************************************************)
\* how many days the clock may advance past its first day
MaxDays == 0

\* how many times the program is started
MaxRuns == 3

\* the latest play date on offer to the status pass, in days after the first day
Horizon == 9

\* how many distinct play dates a movie has when the status pass is studied
MaxDates == 2

\* local times of day at which the clock is read
Hours == {3, 21}

\* UTC offsets of the machine running the scraper (Tokyo is +9)
Offsets == {-5, 0, 9}

\* 2026-01-23, the date the seed schedules play on
SeedPlayDay == DaysFromCivil(2026, 1, 23)

FirstDay == SeedPlayDay

Statuses == {"showing", "incoming", "future", "unplanned"}

Modes == {"serve", "crawl-cinemas", "crawl-schedules", "fill-douban", "update-status"}

(***************************************************************************)
(* The store's rows                                                        *)
(***************************************************************************)
\* a Movie with every field at its Go zero value
ZeroMovie ==
    [ TMDBID |-> 0, IMDBID |-> "",
      TitleCN |-> <<>>, TitleEN |-> <<>>, TitleJP |-> <<>>,
      Director |-> "", Year |-> <<>>,
      Synopsis |-> <<>>, Poster |-> <<>>, Backdrop |-> <<>>,
      Runtime |-> 0, Genre |-> <<>>, CastJSON |-> <<>>,
      TMDBRating |-> 0, IMDBRating |-> 0, DoubanRating |-> 0,
      Status |-> "", ReleaseDate |-> ZeroTime, CuratorNote |-> "" ]

NoMovie == [ID |-> 0, rec |-> ZeroMovie]

Sched(mid, cid, day, start) ==
    [MovieID |-> mid, CinemaID |-> cid, PlayDate |-> day, StartTime |-> start]

\* SELECT * FROM schedules WHERE movie_id = mid, as the set of its play dates
PlayDatesOf(rows, mid) == {r.PlayDate : r \in {x \in BagToSet(rows) : x.MovieID = mid}}

\* db.Create(&rows): plain inserts
RECURSIVE InsertAll(_, _)
InsertAll(rows, new) ==
    IF new = <<>> THEN rows
    ELSE InsertAll(rows (+) SetToBag({Head(new)}), Tail(new))

(***************************************************************************)
(* models.go: seed data                                                    *)
(***************************************************************************)
SeedMovies ==
    << [ZeroMovie EXCEPT
          !.TitleCN = <<"Shou Lie">>, !.TitleEN = <<"THE HUNT">>,
          !.Director = "Thomas Vinterberg", !.Year = <<"2", "0", "1", "2">>,
          !.Synopsis = <<"synopsis of The Hunt">>,
          !.TMDBRating = 81, !.IMDBRating = 83, !.DoubanRating = 91,
          !.Status = "showing", !.ReleaseDate = <<2026, 1, 21>>,
          !.CuratorNote = "curator note 1"],
       [ZeroMovie EXCEPT
          !.TitleCN = <<"Zhi Zhu Xia">>, !.TitleEN = <<"ACROSS THE SPIDER-VERSE">>,
          !.Director = "Kemp Powers", !.Year = <<"2", "0", "2", "3">>,
          !.Synopsis = <<"synopsis of Spider-Verse">>,
          !.TMDBRating = 84, !.IMDBRating = 86, !.DoubanRating = 85,
          !.Status = "incoming", !.ReleaseDate = <<2026, 1, 24>>,
          !.CuratorNote = "curator note 2"] >>

\* seedInitialMovies: the Movie table after it
seedInitialMovies(ms) == IF Len(ms) > 0 THEN ms ELSE SeedMovies

\* seedInitialSchedules: the Schedule table after it
seedInitialSchedules(cs, ms, rows) ==
    IF Len(cs) = 0 \/ Len(ms) = 0 THEN rows
    ELSE IF BagCardinality(rows) > 0 THEN rows
    ELSE LET first == << Sched(1, 1, SeedPlayDay, <<"1", "0", ":", "4", "0">>),
                         Sched(1, 1, SeedPlayDay, <<"1", "5", ":", "4", "0">>),
                         Sched(1, 1, SeedPlayDay, <<"1", "8", ":", "2", "0">>) >>
             more  == IF Len(ms) > 1 /\ Len(cs) > 1
                      THEN << Sched(2, 2, SeedPlayDay, <<"1", "4", ":", "0", "0">>),
                              Sched(2, 2, SeedPlayDay, <<"1", "9", ":", "0", "0">>) >>
                      ELSE <<>>
         IN  InsertAll(rows, first \o more)

(***************************************************************************)
(* main.go: full-batch status derivation (updateMovieStatusFromSchedules)  *)
(***************************************************************************)
\* variant: a play date counts only when strictly before today
HasPastOrToday_Strict(S, w) == \E d \in S : StrLess(Format(d), Format(w.day))

\* the loop over a movie's schedules: is some play date today or earlier
HasPastOrToday(S, w) == \E d \in S : StrLessEq(Format(d), Format(w.day))

\* variant: the lapsed check is dropped
AllLapsed_Never(S, w) == FALSE

\* the check that every showing has lapsed: latestDateStr < todayStr
AllLapsed(S, w) == StrLess(Format(Max(S)), Format(w.day))

\* the branch taken when every play date is in the future
FutureBranch(S, w, off) ==
    LET tomorrow       == Instant(AddDate(w, 1), off)
        sevenDaysLater == Instant(AddDate(w, 7), off)
        earliest       == Truncate24(PlayInstant(Min(S)))
    IN  IF earliest < tomorrow THEN "incoming"
        ELSE IF (earliest = tomorrow \/ earliest > tomorrow)
                /\ (earliest < sevenDaysLater \/ earliest = sevenDaysLater)
             THEN "incoming"
        ELSE IF earliest > sevenDaysLater THEN "future"
        ELSE "showing"

\* variant: an empty schedule list falls through to the date comparisons,
\* where the zero earliest date lies before tomorrow
FullBatchStatus_NoEmptyCase(S, w, off) ==
    IF S = {} THEN "incoming"
    ELSE IF StrLess(Format(Max(S)), Format(w.day)) THEN "unplanned"
    ELSE IF ~(\E d \in S : StrLessEq(Format(d), Format(w.day))) THEN FutureBranch(S, w, off)
    ELSE "showing"

\* newStatus of one movie whose schedules play on the dates S, read at clock w
FullBatchStatus(S, w, off) ==
    IF S = {} THEN "unplanned"
    ELSE IF AllLapsed(S, w) THEN "unplanned"
    ELSE IF ~HasPastOrToday(S, w) THEN FutureBranch(S, w, off)
    ELSE "showing"

\* variant: the status is written whether it differs or not
StatusDiffers_Always(m, newStatus) == TRUE

\* the guard of every status write: movie.Status != newStatus
StatusDiffers(m, newStatus) == m.Status # newStatus

\* the whole pass: every movie gets its status column updated when it differs
updateMovieStatusFromSchedules(ms, rows, w, off) ==
    [i \in DOMAIN ms |->
        LET newStatus == FullBatchStatus(PlayDatesOf(rows, i), w, off)
        IN  IF StatusDiffers(ms[i], newStatus)
            THEN [ms[i] EXCEPT !.Status = newStatus]
            ELSE ms[i]]

\* updatedCount of the pass
UpdatedCount(ms, rows, w, off) ==
    Cardinality({i \in DOMAIN ms :
                    StatusDiffers(ms[i], FullBatchStatus(PlayDatesOf(rows, i), w, off))})

(***************************************************************************)
(* Go's strings / strconv packages, as far as the code uses them           *)
(***************************************************************************)
IsSpace(c) == c \in {" ", "\t", "\n"}

\* strings.TrimSpace
RECURSIVE TrimSpace(_)
TrimSpace(s) ==
    IF s = <<>> THEN s
    ELSE IF IsSpace(s[1]) THEN TrimSpace(Tail(s))
    ELSE IF IsSpace(s[Len(s)]) THEN TrimSpace(SubSeq(s, 1, Len(s) - 1))
    ELSE s

\* strings.Contains(s, sub)
HasSubstring(s, sub) ==
    \E i \in 1..(Len(s) + 1) :
        i + Len(sub) - 1 <= Len(s) /\ SubSeq(s, i, i + Len(sub) - 1) = sub

\* strings.Join(parts, sep)
RECURSIVE Join(_, _)
Join(parts, sep) ==
    IF parts = <<>> THEN <<>>
    ELSE IF Len(parts) = 1 THEN parts[1]
    ELSE parts[1] \o sep \o Join(Tail(parts), sep)

\* strconv.ParseFloat with the error dropped, in tenths: "7.5" is 75, "N/A" is 0
ParseFloat(s) ==
    IF s # <<>> /\ AllDigits(s) THEN 10 * Atoi(s)
    ELSE IF /\ Len(s) >= 3 /\ s[Len(s) - 1] = "."
            /\ AllDigits(SubSeq(s, 1, Len(s) - 2)) /\ IsDigit(s[Len(s)])
         THEN 10 * Atoi(SubSeq(s, 1, Len(s) - 2)) + DigitVal(s[Len(s)])
    ELSE 0

(***************************************************************************)
(* main.go: the external lookups.  A reply is [kind, ...]: kind "neterr"   *)
(* is a failed request, "decodeerr" a body that does not decode.           *)
(***************************************************************************)
ENABLE_DOUBAN_RATING == FALSE

\* variant: a search without result goes on with the identifier 1
searchTmdbID_Default(reply) ==
    IF reply.kind # "ok" THEN 1
    ELSE IF Len(reply.Results) > 0 THEN reply.Results[1]
    ELSE 1

\* searchTmdbID: the first result's ID, 0 when there is none
searchTmdbID(reply) ==
    IF reply.kind # "ok" THEN 0
    ELSE IF Len(reply.Results) > 0 THEN reply.Results[1]
    ELSE 0

\* fetchImdbRating: the rating OMDb reports for imdbID
fetchImdbRating(imdbID, reply) ==
    IF imdbID = "" THEN 0
    ELSE IF reply.kind # "ok" THEN 0
    ELSE ParseFloat(reply.Rating)

\* fetchDoubanRating: the OnHTML(".result") callback over the entries in page order
RECURSIVE DoubanScan(_, _, _, _)
DoubanScan(entries, title, year, rating) ==
    IF entries = <<>> THEN rating
    ELSE LET e == Head(entries)
             r == IF rating # 0 THEN rating
                  ELSE IF HasSubstring(e.meta, year) \/ HasSubstring(e.title, title)
                       THEN ParseFloat(e.rating)
                       ELSE rating
         IN  DoubanScan(Tail(entries), title, year, r)

fetchDoubanRating(title, year, reply) ==
    IF reply.kind # "ok" THEN 0
    ELSE DoubanScan(reply.entries, title, year, 0)

(***************************************************************************)
(* main.go: enrichMovieRatings                                             *)
(***************************************************************************)
Langs == <<"zh-CN", "ja-JP", "en-US">>

\* variant: the guard also waits for a Douban rating
AlreadyEnriched_WithDouban(m) ==
    m.TitleCN # <<>> /\ m.TitleEN # <<>> /\ m.TMDBRating > 0 /\ ~IsZero(m.ReleaseDate)
        /\ m.DoubanRating > 0

\* the guard at the top: the record is already complete
AlreadyEnriched(m) ==
    m.TitleCN # <<>> /\ m.TitleEN # <<>> /\ m.TMDBRating > 0 /\ ~IsZero(m.ReleaseDate)

\* data.Genres joined, blank names dropped
GenreText(genres) ==
    Join(SelectSeq(genres, LAMBDA g : TrimSpace(g) # <<>>), <<",", " ">>)

\* the first crew member whose job is "Director", "" when there is none
FirstDirector(crew) ==
    IF \E i \in DOMAIN crew : crew[i].Job = "Director"
    THEN crew[Min({i \in DOMAIN crew : crew[i].Job = "Director"})].Name
    ELSE ""

\* variant: the whole cast is kept
CastOut_All(cast) ==
    [i \in 1..Len(cast) |->
        [name |-> cast[i].Name, role |-> cast[i].Character,
         img  |-> IF cast[i].ProfilePath # ""
                  THEN <<"https://image.tmdb.org/t/p/w185", cast[i].ProfilePath>>
                  ELSE <<>>]]

\* the castOut list marshalled into CastJSON: the first 8 members at most
CastOut(cast) ==
    LET limit == IF Len(cast) > 8 THEN 8 ELSE Len(cast)
    IN  [i \in 1..limit |->
            [name |-> cast[i].Name, role |-> cast[i].Character,
             img  |-> IF cast[i].ProfilePath # ""
                      THEN <<"https://image.tmdb.org/t/p/w185", cast[i].ProfilePath>>
                      ELSE <<>>]]

\* the rating of one detail response
MergeTMDBRating(m, data) ==
    IF data.VoteAverage > 0 /\ m.TMDBRating = 0 THEN data.VoteAverage ELSE m.TMDBRating

\* variant: every locale's response overwrites the synopsis and the runtime
MergeCommon_Overwrite(m, data) ==
    [m EXCEPT
        !.TMDBRating = MergeTMDBRating(m, data),
        !.Synopsis = IF TrimSpace(data.Overview) # <<>> THEN data.Overview ELSE @,
        !.Poster = IF data.PosterPath # "" /\ m.Poster = <<>>
                   THEN <<"https://image.tmdb.org/t/p/w500", data.PosterPath>> ELSE @,
        !.Backdrop = IF data.BackdropPath # "" /\ m.Backdrop = <<>>
                     THEN <<"https://image.tmdb.org/t/p/original", data.BackdropPath>>
                     ELSE @,
        !.Year = IF data.ReleaseDate # <<>> /\ m.Year = <<>> /\ Len(data.ReleaseDate) >= 4
                 THEN SubSeq(data.ReleaseDate, 1, 4) ELSE @,
        !.ReleaseDate = IF /\ data.ReleaseDate # <<>> /\ IsZero(m.ReleaseDate)
                           /\ ParseDashed(data.ReleaseDate).ok
                        THEN ParseDashed(data.ReleaseDate).date ELSE @,
        !.Runtime = IF data.Runtime > 0 THEN data.Runtime ELSE @,
        !.Genre = IF Len(data.Genres) > 0 /\ m.Genre = <<>>
                  THEN GenreText(data.Genres) ELSE @,
        !.Director = IF m.Director = "" THEN FirstDirector(data.Crew) ELSE @]

\* the fields every locale's response fills when they are still unset
MergeCommon(m, data) ==
    [m EXCEPT
        !.TMDBRating = MergeTMDBRating(m, data),
        !.Synopsis = IF m.Synopsis = <<>> /\ TrimSpace(data.Overview) # <<>>
                     THEN data.Overview ELSE @,
        !.Poster = IF data.PosterPath # "" /\ m.Poster = <<>>
                   THEN <<"https://image.tmdb.org/t/p/w500", data.PosterPath>> ELSE @,
        !.Backdrop = IF data.BackdropPath # "" /\ m.Backdrop = <<>>
                     THEN <<"https://image.tmdb.org/t/p/original", data.BackdropPath>>
                     ELSE @,
        !.Year = IF data.ReleaseDate # <<>> /\ m.Year = <<>> /\ Len(data.ReleaseDate) >= 4
                 THEN SubSeq(data.ReleaseDate, 1, 4) ELSE @,
        !.ReleaseDate = IF /\ data.ReleaseDate # <<>> /\ IsZero(m.ReleaseDate)
                           /\ ParseDashed(data.ReleaseDate).ok
                        THEN ParseDashed(data.ReleaseDate).date ELSE @,
        !.Runtime = IF data.Runtime > 0 /\ m.Runtime = 0 THEN data.Runtime ELSE @,
        !.Genre = IF Len(data.Genres) > 0 /\ m.Genre = <<>>
                  THEN GenreText(data.Genres) ELSE @,
        !.Director = IF m.Director = "" THEN FirstDirector(data.Crew) ELSE @]

\* CastJSON: filled once, from the zh-CN or en-US credits only
MergeCast(m, lang, data) ==
    IF (lang = "zh-CN" \/ lang = "en-US") /\ m.CastJSON = <<>> /\ Len(data.Cast) > 0
    THEN [m EXCEPT !.CastJSON = CastOut(data.Cast)]
    ELSE m

\* variant: the translated and alternate titles are filled only when empty
MergeTitle_FillOnly(m, lang, data) ==
    IF lang = "zh-CN"
    THEN (IF data.Title # <<>> /\ m.TitleCN = <<>> THEN [m EXCEPT !.TitleCN = data.Title] ELSE m)
    ELSE IF lang = "ja-JP"
         THEN (IF data.Title # <<>> /\ m.TitleJP = <<>>
               THEN [m EXCEPT !.TitleJP = data.Title] ELSE m)
    ELSE IF lang = "en-US"
         THEN (IF data.Title # <<>> /\ m.TitleEN = <<>>
               THEN [m EXCEPT !.TitleEN = data.Title] ELSE m)
    ELSE m

\* the switch on lang: the locale's own title field
MergeTitle(m, lang, data) ==
    IF lang = "zh-CN" THEN (IF data.Title # <<>> THEN [m EXCEPT !.TitleCN = data.Title] ELSE m)
    ELSE IF lang = "ja-JP"
         THEN (IF data.Title # <<>> /\ m.TitleJP = <<>>
               THEN [m EXCEPT !.TitleJP = data.Title] ELSE m)
    ELSE IF lang = "en-US"
         THEN (IF data.Title # <<>> THEN [m EXCEPT !.TitleEN = data.Title] ELSE m)
    ELSE m

\* the switch on lang: the local imdbID
MergeImdbID(imdbID, lang, data) ==
    IF (lang = "zh-CN" \/ lang = "en-US") /\ imdbID = "" THEN data.ImdbID ELSE imdbID

\* variant: the first failed detail request ends the loop over the locales
RECURSIVE DetailLoop_StopOnFailure(_, _, _)
DetailLoop_StopOnFailure(st, details, i) ==
    IF i > Len(Langs) THEN st
    ELSE LET lang  == Langs[i]
             reply == details[i]
         IN  IF reply.kind # "ok" THEN st
             ELSE DetailLoop_StopOnFailure(
                    [m |-> MergeTitle(MergeCast(MergeCommon(st.m, reply.data), lang, reply.data),
                                      lang, reply.data),
                     imdbID |-> MergeImdbID(st.imdbID, lang, reply.data)],
                    details, i + 1)

\* the loop over langs from position i; st is [m, imdbID]
RECURSIVE DetailLoop(_, _, _)
DetailLoop(st, details, i) ==
    IF i > Len(Langs) THEN st
    ELSE LET lang  == Langs[i]
             reply == details[i]
         IN  IF reply.kind # "ok" THEN DetailLoop(st, details, i + 1)
             ELSE DetailLoop(
                    [m |-> MergeTitle(MergeCast(MergeCommon(st.m, reply.data), lang, reply.data),
                                      lang, reply.data),
                     imdbID |-> MergeImdbID(st.imdbID, lang, reply.data)],
                    details, i + 1)

\* step 3: the IMDb identifier and rating
MergeImdb(m, imdbID, omdb) ==
    IF imdbID # ""
    THEN [m EXCEPT !.IMDBID = imdbID, !.IMDBRating = fetchImdbRating(imdbID, omdb)]
    ELSE m

\* step 4: January 1 of the year when no exact date was parsed
FallbackReleaseDate(m) ==
    IF IsZero(m.ReleaseDate) /\ m.Year # <<>>
          /\ ParseDashed(m.Year \o <<"-", "0", "1", "-", "0", "1">>).ok
    THEN [m EXCEPT !.ReleaseDate = ParseDashed(m.Year \o <<"-", "0", "1", "-", "0", "1">>).date]
    ELSE m

\* step 5: the Douban rating, when enabled
MergeDouban(m, douban) ==
    IF ENABLE_DOUBAN_RATING /\ m.TitleEN # <<>> /\ m.Year # <<>>
    THEN [m EXCEPT !.DoubanRating = fetchDoubanRating(m.TitleEN, m.Year, douban)]
    ELSE m

\* enrichMovieRatings(&m) with the replies ext = [search, details, omdb, douban]:
\* [m: the record after the call, saved: db.Save ran, calls: external requests made]
enrichMovieRatings(m, ext) ==
    IF AlreadyEnriched(m) THEN [m |-> m, saved |-> FALSE, calls |-> 0]
    ELSE IF TrimSpace(m.TitleJP) = <<>> THEN [m |-> m, saved |-> FALSE, calls |-> 0]
    ELSE LET tmdbID == searchTmdbID(ext.search)
         IN  IF tmdbID = 0 THEN [m |-> m, saved |-> FALSE, calls |-> 1]
             ELSE LET m1 == IF m.TMDBID = 0 THEN [m EXCEPT !.TMDBID = tmdbID] ELSE m
                      st == DetailLoop([m |-> m1, imdbID |-> ""], ext.details, 1)
                      m3 == MergeImdb(st.m, st.imdbID, ext.omdb)
                      m4 == FallbackReleaseDate(m3)
                      m5 == MergeDouban(m4, ext.douban)
                      n  == 1 + Len(Langs)
                              + (IF st.imdbID # "" THEN 1 ELSE 0)
                              + (IF ENABLE_DOUBAN_RATING /\ m4.TitleEN # <<>> /\ m4.Year # <<>>
                                 THEN 1 ELSE 0)
                  IN  [m |-> m5, saved |-> TRUE, calls |-> n]

(***************************************************************************)
(* main.go: scraped texts.  "(" and ")" stand for the full-width brackets  *)
(* of the page title, "~" for the full-width tilde of a time span, "N" for *)
(* a full-width digit.                                                     *)
(***************************************************************************)
\* the characters that take three bytes in UTF-8
WideChars == {"~", "N"}

FirstIndex(s, C) ==
    IF \E i \in DOMAIN s : s[i] \in C THEN Min({i \in DOMAIN s : s[i] \in C}) ELSE 0

\* regexp `(.*?)` ReplaceAllString(rawName, ""): every bracketed part removed
RECURSIVE StripBrackets(_)
StripBrackets(s) ==
    LET i == FirstIndex(s, {"("})
    IN  IF i = 0 THEN s
        ELSE LET rest == SubSeq(s, i + 1, Len(s))
                 j    == FirstIndex(rest, {")"})
             IN  IF j = 0 THEN s
                 ELSE SubSeq(s, 1, i - 1) \o StripBrackets(SubSeq(rest, j + 1, Len(rest)))

\* len(text): bytes; a full-width character takes three
RECURSIVE ByteLen(_)
ByteLen(s) ==
    IF s = <<>> THEN 0 ELSE (IF Head(s) \in WideChars THEN 3 ELSE 1) + ByteLen(Tail(s))

\* the start time of one span: [ok, text]
StartTime(spanText) ==
    LET text == TrimSpace(spanText)
        idx  == FirstIndex(text, {"~", " "})
        cut  == IF idx # 0 THEN SubSeq(text, 1, idx - 1) ELSE text
    IN  IF text = <<>> THEN [ok |-> FALSE, text |-> <<>>]
        ELSE IF ByteLen(cut) < 4 \/ ~Contains(cut, ":") THEN [ok |-> FALSE, text |-> cut]
        ELSE [ok |-> TRUE, text |-> cut]

\* the play date of one td[data-date]: [ok, day]
CellDate(cell) ==
    LET dateRaw == TrimSpace(cell.date)
    IN  IF Len(dateRaw) # 8 THEN [ok |-> FALSE, day |-> 0] ELSE ParseCompact(dateRaw)

(***************************************************************************)
(* main.go: syncSchedulesFromEiga, the store lookups                       *)
(***************************************************************************)
\* variant: a page of an unknown cinema is filed under the first cinema
FindCinema_FirstAsFallback(cs, nameJP) ==
    IF \E i \in DOMAIN cs : cs[i].NameJP = nameJP
    THEN Min({i \in DOMAIN cs : cs[i].NameJP = nameJP})
    ELSE IF Len(cs) > 0 THEN 1 ELSE 0

\* db.Where("name_jp = ?", nameJP).First(&cinema): the row's ID, 0 when not found
FindCinema(cs, nameJP) ==
    IF \E i \in DOMAIN cs : cs[i].NameJP = nameJP
    THEN Min({i \in DOMAIN cs : cs[i].NameJP = nameJP})
    ELSE 0

\* db.Where(&Movie{TitleJP: titleJP}).First(&movie): the row's ID, 0 when not found
FindMovie(ms, titleJP) ==
    IF \E i \in DOMAIN ms : ms[i].TitleJP = titleJP
    THEN Min({i \in DOMAIN ms : ms[i].TitleJP = titleJP})
    ELSE 0

\* the Movie created for a title seen for the first time
NewMovie(titleJP) == [ZeroMovie EXCEPT !.TitleJP = titleJP, !.Status = "showing"]

\* variant: the rows of the same movie and cinema on the same date are dropped
\* before the new start time is stored
FirstOrCreateSchedule_ReplaceDay(rows, sched) ==
    LET same(r) == r.MovieID = sched.MovieID /\ r.CinemaID = sched.CinemaID
                     /\ r.PlayDate = sched.PlayDate
        kept    == {r \in BagToSet(rows) : ~same(r)}
    IN  [r \in kept |-> rows[r]] (+) SetToBag({sched})

\* variant: a plain insert without the lookup
FirstOrCreateSchedule_Create(rows, sched) == rows (+) SetToBag({sched})

\* db.Where(movie, cinema, date, time).FirstOrCreate(&sched)
FirstOrCreateSchedule(rows, sched) ==
    IF CopiesIn(sched, rows) > 0 THEN rows ELSE rows (+) SetToBag({sched})

\* td.ForEach("span"): the spans of one cell, in order
RECURSIVE SpanLoop(_, _, _, _, _)
SpanLoop(rows, spans, mid, cid, day) ==
    IF spans = <<>> THEN rows
    ELSE LET st == StartTime(Head(spans))
         IN  SpanLoop(IF st.ok THEN FirstOrCreateSchedule(rows, Sched(mid, cid, day, st.text))
                      ELSE rows,
                      Tail(spans), mid, cid, day)

\* sec.ForEach("table.weekly-schedule td[data-date]"): [rows, playDatesMap]
RECURSIVE CellLoop(_, _, _, _)
CellLoop(acc, cells, mid, cid) ==
    IF cells = <<>> THEN acc
    ELSE LET cd == CellDate(Head(cells))
         IN  IF ~cd.ok THEN CellLoop(acc, Tail(cells), mid, cid)
             ELSE CellLoop(
                    [rows |-> SpanLoop(acc.rows, Head(cells).spans, mid, cid, cd.day),
                     playDatesMap |-> acc.playDatesMap \cup {Format(cd.day)}],
                    Tail(cells), mid, cid)

(***************************************************************************)
(* main.go: incremental status derivation (end of the section callback)    *)
(***************************************************************************)
\* time.Parse("2006-01-02", dateStr) of a map key, as a day number
KeyDay(k) == DaysFromCivil(k[1], k[2], k[3])

\* variant: as the full-batch pass does, an earliest date beyond seven days
\* gives `future`
IncrementalStatus_WithFuture(keys, w, off) ==
    LET todayStr       == Format(w.day)
        sevenDaysLater == Instant(AddDate(w, 7), off)
        earliestDate   == Min({KeyDay(k) : k \in keys})
    IN  IF \E k \in keys : StrLessEq(k, todayStr) THEN "showing"
        ELSE IF PlayInstant(earliestDate) < sevenDaysLater
                \/ PlayInstant(earliestDate) = sevenDaysLater
             THEN "incoming"
        ELSE "future"

\* newStatus from the dates of playDatesMap (not empty), read at clock w
IncrementalStatus(keys, w, off) ==
    LET todayStr       == Format(w.day)
        tomorrowStr    == Format(AddDate(w, 1).day)
        sevenDaysLater == Instant(AddDate(w, 7), off)
        hasPastOrToday == \E k \in keys : StrLessEq(k, todayStr)
        earliestDate   == Min({KeyDay(k) : k \in keys})
    IN  IF ~hasPastOrToday
        THEN IF ~StrLess(Format(earliestDate), tomorrowStr)
             THEN IF PlayInstant(earliestDate) < sevenDaysLater
                     \/ PlayInstant(earliestDate) = sevenDaysLater
                  THEN "incoming"
                  ELSE "showing"
             ELSE "showing"
        ELSE "showing"

\* variant: a section without a parseable date cell resets the status to the
\* default `showing`
SectionStatus_DefaultShowing(old, keys, w, off) ==
    IF keys # {} THEN IncrementalStatus(keys, w, off) ELSE "showing"

\* the status after the section: unchanged when no date cell parsed
SectionStatus(old, keys, w, off) ==
    IF keys # {} THEN IncrementalStatus(keys, w, off) ELSE old

(***************************************************************************)
(* main.go: syncCinemasBetter, the detail page callback                    *)
(***************************************************************************)
\* the first img under /theater/ that is not a shared asset, <<>> when none
RealImg(imgs) ==
    LET ok(i) == imgs[i].theater /\ ~imgs[i].shared
    IN  IF \E i \in DOMAIN imgs : ok(i)
        THEN imgs[Min({i \in DOMAIN imgs : ok(i)})].src
        ELSE ""

\* the Cinema built from the page; geo is the geocoder's answer
PageCinema(page, geo) ==
    [ NameJP |-> StripBrackets(page.rawName), Address |-> page.address,
      Latitude |-> geo[1], Longitude |-> geo[2],
      BuildingPhoto |-> RealImg(page.imgs), Website |-> page.website ]

\* Updates(assigns): the non-zero fields of c overwrite those of old
AssignCinema(old, c) ==
    [ NameJP |-> IF c.NameJP # <<>> THEN c.NameJP ELSE old.NameJP,
      Address |-> IF c.Address # "" THEN c.Address ELSE old.Address,
      Latitude |-> IF c.Latitude # 0 THEN c.Latitude ELSE old.Latitude,
      Longitude |-> IF c.Longitude # 0 THEN c.Longitude ELSE old.Longitude,
      BuildingPhoto |-> IF c.BuildingPhoto # "" THEN c.BuildingPhoto ELSE old.BuildingPhoto,
      Website |-> IF c.Website # "" THEN c.Website ELSE old.Website ]

\* db.Where(Cinema{NameJP: nameJP}): a zero name adds no condition
WhereCinema(cs, nameJP) ==
    IF nameJP = <<>> THEN (IF Len(cs) > 0 THEN 1 ELSE 0) ELSE FindCinema(cs, nameJP)

\* db.Where(Cinema{NameJP: nameJP}).Assign(cinema).FirstOrCreate(&cinema)
UpsertCinema(cs, c) ==
    LET id == WhereCinema(cs, c.NameJP)
    IN  IF id = 0 THEN Append(cs, c) ELSE [cs EXCEPT ![id] = AssignCinema(@, c)]

\* the OnHTML("main") callback of the cinema crawl
syncCinemaPage(cs, page, geo) ==
    IF page.rawName = <<>> THEN cs ELSE UpsertCinema(cs, PageCinema(page, geo))

(***************************************************************************)
(* main.go: backfillDoubanRatings                                          *)
(***************************************************************************)
NeedsDouban(m) == m.DoubanRating = 0 /\ m.TitleEN # <<>> /\ m.Year # <<>>

backfillDoubanRatings(ms, replies) ==
    [i \in DOMAIN ms |->
        IF NeedsDouban(ms[i])
        THEN LET score == fetchDoubanRating(ms[i].TitleEN, ms[i].Year, replies[i])
             IN  IF score <= 0 THEN ms[i] ELSE [ms[i] EXCEPT !.DoubanRating = score]
        ELSE ms[i]]

(***************************************************************************)
(* The pages and replies served to the program                             *)
(***************************************************************************)
Pad2(n) == <<Digits[((n \div 10) % 10) + 1], Digits[(n % 10) + 1]>>

\* the data-date attribute eiga.com writes for a day: "20060102"
CompactText(day) ==
    LET f == Format(day)
    IN  Pad2(f[1] \div 100) \o Pad2(f[1] % 100) \o Pad2(f[2]) \o Pad2(f[3])

Cell(date, spans) == [date |-> date, spans |-> spans]

Sec(title, cells) == [title |-> title, cells |-> cells]

Page(rawName, sections) == [rawName |-> rawName, sections |-> sections]

RawP == <<"P", "(", "x", ")">>

RawQ == <<"Q">>

RawR == <<"R">>

TitleA == <<" ", "A">>

TitleB == <<"B">>

Span1100 == <<"1", "1", ":", "0", "0">>

Span1805 == <<"1", "8", ":", "0", "5", "~", "2", "0", ":", "0", "0">>

SpanNoColon == <<"1", "1", "0", "0">>

SpanShort == <<"9", ":", "0">>

SpanWide == <<"N", ":", "0">>

SpanPadded == <<" ", "0", "9", ":", "3", "0", " ", "A", "M">>

BadDate == <<"2", "0", "2", "6", "1", "3", "0", "1">>

OneCell(day) == <<Cell(CompactText(day), <<Span1100>>)>>

\* what eiga.com may serve to one schedule crawl: one or two cinema pages, a
\* movie on two pages or in two sections, repeated spans, malformed cells,
\* titles and names, a cinema the store does not know
MainSites ==
    { <<Page(RawP, <<Sec(TitleA, OneCell(FirstDay + 1))>>)>>,
      <<Page(RawP, <<Sec(TitleA, OneCell(FirstDay + 8))>>)>>,
      <<Page(RawP, <<Sec(TitleA, <<Cell(CompactText(FirstDay),
                                        <<Span1805, Span1100, Span1805>>)>>)>>)>>,
      <<Page(RawP, <<Sec(TitleA, <<Cell(BadDate, <<Span1100>>),
                                   Cell(CompactText(FirstDay + 1), <<SpanNoColon>>)>>)>>)>>,
      <<Page(RawP, <<Sec(TitleB, <<>>)>>)>>,
      <<Page(RawP, <<Sec(TitleA, OneCell(FirstDay + 1))>>),
        Page(RawQ, <<Sec(TitleA, OneCell(FirstDay - 1))>>)>>,
      <<Page(RawP, <<Sec(TitleA, OneCell(FirstDay + 7)), Sec(<<"A">>, OneCell(FirstDay))>>)>>,
      <<Page(RawR, <<Sec(TitleB, OneCell(FirstDay))>>),
        Page(<<>>, <<Sec(TitleB, OneCell(FirstDay))>>)>>,
      <<Page(RawQ, <<Sec(<<" ">>, OneCell(FirstDay)), Sec(TitleB, OneCell(FirstDay + 9))>>)>> }

MainCinemaPages ==
    { [rawName |-> RawP, address |-> "Shinjuku 3-15-15", website |-> "http://p.example",
       imgs |-> << [src |-> "/shared/banner.png", theater |-> FALSE, shared |-> TRUE],
                   [src |-> "/theater/p.jpg", theater |-> TRUE, shared |-> FALSE] >>],
      [rawName |-> RawQ, address |-> "Shibuya 1-5-16", website |-> "", imgs |-> <<>>],
      [rawName |-> <<>>, address |-> "", website |-> "", imgs |-> <<>>] }

Geos == {<<356895, 1396917>>}

NoReply == [kind |-> "neterr"]

NoData ==
    [ ImdbID |-> "", Title |-> <<>>, Overview |-> <<>>, PosterPath |-> "",
      BackdropPath |-> "", ReleaseDate |-> <<>>, Runtime |-> 0, VoteAverage |-> 0,
      Genres |-> <<>>, Cast |-> <<>>, Crew |-> <<>> ]

Detail(data) == [kind |-> "ok", data |-> data]

Ext(search, details, omdb, douban) ==
    [search |-> search, details |-> details, omdb |-> omdb, douban |-> douban]

DataFull ==
    [ NoData EXCEPT
        !.ImdbID = "tt1", !.Title = <<"t">>, !.Overview = <<"o">>, !.PosterPath = "/p.jpg",
        !.ReleaseDate = <<"2", "0", "2", "5", "-", "1", "2", "-", "3", "1">>,
        !.Runtime = 120, !.VoteAverage = 72 ]

MainExts ==
    { Ext(NoReply, <<NoReply, NoReply, NoReply>>, NoReply, NoReply),
      Ext([kind |-> "ok", Results |-> <<101>>],
          <<Detail(DataFull), Detail(DataFull), Detail(DataFull)>>,
          [kind |-> "ok", Rating |-> <<"7", ".", "5">>], NoReply) }

MainDoubanReplies ==
    { NoReply,
      [kind |-> "ok",
       entries |-> <<[title |-> <<"t">>, meta |-> <<"2", "0", "2", "5">>,
                      rating |-> <<"8", ".", "8">>]>>] }

(***************************************************************************)
(* The state machine                                                       *)
(***************************************************************************)
NoPos == [page |-> 0, sec |-> 0, cinema |-> 0]

NoSnap == [schedules |-> EmptyBag, nMovies |-> 0, rerun |-> FALSE]

Init ==
    /\ runs = 0
    /\ cinemas = <<>>
    /\ movies = <<>>
    /\ schedules = EmptyBag
    /\ now \in {[day |-> FirstDay, hour |-> h] : h \in Hours}
    /\ utcOffset \in Offsets
    /\ pc = "idle"
    /\ site = <<>>
    /\ pos = NoPos
    /\ movie = NoMovie
    /\ ev = [op |-> "init"]
    /\ snap = NoSnap

\* time passes between two runs (a run is short against the clock's steps)
Tick ==
    /\ pc = "idle"
    /\ \/ /\ \E h \in Hours : h > now.hour
          /\ now' = [now EXCEPT !.hour = Min({h \in Hours : h > now.hour})]
       \/ /\ now.day < FirstDay + MaxDays
          /\ now' = [day |-> now.day + 1, hour |-> Min(Hours)]
    /\ ev' = [op |-> "tick"]
    /\ UNCHANGED <<runs, cinemas, movies, schedules, utcOffset, pc, site, pos, movie, snap>>

\* main(): open the store, seed it, pick the mode from the command line
Start(mode) ==
    /\ pc = "idle"
    /\ runs < MaxRuns
    /\ mode # "crawl-schedules"
    /\ runs' = runs + 1
    /\ movies' = seedInitialMovies(movies)
    /\ schedules' = seedInitialSchedules(cinemas, seedInitialMovies(movies), schedules)
    /\ pc' = mode
    /\ site' = <<>>
    /\ snap' = NoSnap
    /\ ev' = [op |-> "start"]
    /\ UNCHANGED <<cinemas, now, utcOffset, pos, movie>>

\* main() in mode crawl-schedules; s is what eiga.com serves during this run
StartCrawl(s) ==
    /\ pc = "idle"
    /\ runs < MaxRuns
    /\ runs' = runs + 1
    /\ movies' = seedInitialMovies(movies)
    /\ schedules' = seedInitialSchedules(cinemas, seedInitialMovies(movies), schedules)
    /\ pc' = "crawl-schedules"
    /\ site' = s
    /\ pos' = NoPos
    /\ snap' = [schedules |-> schedules', nMovies |-> Len(movies'), rerun |-> FALSE]
    /\ ev' = [op |-> "start"]
    /\ UNCHANGED <<cinemas, now, utcOffset, movie>>

\* the API server runs until it is stopped; it only reads the store
Serve ==
    /\ pc = "serve"
    /\ pc' = "idle"
    /\ ev' = [op |-> "serve"]
    /\ UNCHANGED <<runs, cinemas, movies, schedules, now, utcOffset, site, pos, movie, snap>>

\* crawl-cinemas: one detail page visited
CinemaDetail(page, geo) ==
    /\ pc = "crawl-cinemas"
    /\ cinemas' = syncCinemaPage(cinemas, page, geo)
    /\ ev' = [op |-> "cinema", rawName |-> page.rawName]
    /\ UNCHANGED <<runs, movies, schedules, now, utcOffset, pc, site, pos, movie, snap>>

\* crawl-cinemas: the listing is exhausted
CinemasDone ==
    /\ pc = "crawl-cinemas"
    /\ pc' = "idle"
    /\ ev' = [op |-> "cinemas-done"]
    /\ UNCHANGED <<runs, cinemas, movies, schedules, now, utcOffset, site, pos, movie, snap>>

\* update-status: the whole pass
UpdateStatus ==
    /\ pc = "update-status"
    /\ movies' = updateMovieStatusFromSchedules(movies, schedules, now, utcOffset)
    /\ pc' = "idle"
    /\ ev' = [op |-> "update-status",
              updatedCount |-> UpdatedCount(movies, schedules, now, utcOffset)]
    /\ UNCHANGED <<runs, cinemas, schedules, now, utcOffset, site, pos, movie, snap>>

\* fill-douban: the whole pass
FillDouban(replies) ==
    /\ pc = "fill-douban"
    /\ movies' = backfillDoubanRatings(movies, replies)
    /\ pc' = "idle"
    /\ ev' = [op |-> "fill-douban", replies |-> replies]
    /\ UNCHANGED <<runs, cinemas, schedules, now, utcOffset, site, pos, movie, snap>>

\* crawl-schedules: the next detail page is visited, its cinema looked up
VisitDetail ==
    /\ pc = "crawl-schedules"
    /\ pos.page < Len(site)
    /\ LET page   == site[pos.page + 1]
           nameJP == StripBrackets(page.rawName)
           cid    == FindCinema(cinemas, nameJP)
       IN  IF page.rawName = <<>> \/ cid = 0 \/ page.sections = <<>>
           THEN /\ pos' = [page |-> pos.page + 1, sec |-> 0, cinema |-> 0]
                /\ pc' = pc
                /\ ev' = [op |-> "page-skipped"]
           ELSE /\ pos' = [page |-> pos.page + 1, sec |-> 1, cinema |-> cid]
                /\ pc' = "section"
                /\ ev' = [op |-> "page"]
    /\ UNCHANGED <<runs, cinemas, movies, schedules, now, utcOffset, site, movie, snap>>

\* where the crawl goes after the section at pos
AfterSection ==
    IF pos.sec < Len(site[pos.page].sections)
    THEN [pc |-> "section", pos |-> [pos EXCEPT !.sec = @ + 1]]
    ELSE [pc |-> "crawl-schedules", pos |-> [pos EXCEPT !.sec = 0, !.cinema = 0]]

\* section callback, step 1: the Movie of the title is found or created
SectionMovie ==
    /\ pc = "section"
    /\ LET titleJP == TrimSpace(site[pos.page].sections[pos.sec].title)
           found   == FindMovie(movies, titleJP)
       IN  IF titleJP = <<>>
           THEN /\ pc' = AfterSection.pc
                /\ pos' = AfterSection.pos
                /\ ev' = [op |-> "section-skipped"]
                /\ UNCHANGED <<movies, movie>>
           ELSE /\ pc' = "enrich"
                /\ pos' = pos
                /\ IF found # 0
                   THEN /\ movie' = [ID |-> found, rec |-> movies[found]]
                        /\ movies' = movies
                        /\ ev' = [op |-> "movie-found"]
                   ELSE /\ movie' = [ID |-> Len(movies) + 1, rec |-> NewMovie(titleJP)]
                        /\ movies' = Append(movies, NewMovie(titleJP))
                        /\ ev' = [op |-> "movie-created"]
    /\ UNCHANGED <<runs, cinemas, schedules, now, utcOffset, site, snap>>

\* section callback, step 2: enrichMovieRatings(&movie) with the replies ext
Enrich(ext) ==
    /\ pc = "enrich"
    /\ LET r == enrichMovieRatings(movie.rec, ext)
       IN  /\ movie' = [movie EXCEPT !.rec = r.m]
           /\ movies' = IF r.saved THEN [movies EXCEPT ![movie.ID] = r.m] ELSE movies
           /\ ev' = [op |-> "enrich", short |-> AlreadyEnriched(movie.rec),
                     calls |-> r.calls, saved |-> r.saved, ext |-> ext]
    /\ pc' = "cells"
    /\ UNCHANGED <<runs, cinemas, schedules, now, utcOffset, site, pos, snap>>

\* section callback, step 3: the weekly schedule table, then the movie's status
SectionCells ==
    /\ pc = "cells"
    /\ LET acc == CellLoop([rows |-> schedules, playDatesMap |-> {}],
                           site[pos.page].sections[pos.sec].cells, movie.ID, pos.cinema)
           newStatus == SectionStatus(movie.rec.Status, acc.playDatesMap, now, utcOffset)
       IN  /\ schedules' = acc.rows
           /\ movies' = IF StatusDiffers(movie.rec, newStatus)
                         THEN [movies EXCEPT ![movie.ID].Status = newStatus]
                         ELSE movies
           /\ ev' = [op |-> "cells", id |-> movie.ID, keys |-> acc.playDatesMap,
                     wrote |-> StatusDiffers(movie.rec, newStatus)]
    /\ movie' = NoMovie
    /\ pc' = AfterSection.pc
    /\ pos' = AfterSection.pos
    /\ UNCHANGED <<runs, cinemas, now, utcOffset, site, snap>>

\* crawl-schedules: the listing is exhausted, the process exits
CrawlDone ==
    /\ pc = "crawl-schedules"
    /\ pos.page = Len(site)
    /\ pc' = "idle"
    /\ pos' = NoPos
    /\ site' = <<>>
    /\ snap' = NoSnap
    /\ ev' = [op |-> "crawl-done"]
    /\ UNCHANGED <<runs, cinemas, movies, schedules, now, utcOffset, movie>>

\* the process exits and crawl-schedules is run again at once, eiga.com
\* serving the same pages
CrawlAgain ==
    /\ pc = "crawl-schedules"
    /\ pos.page = Len(site)
    /\ runs < MaxRuns
    /\ runs' = runs + 1
    /\ movies' = seedInitialMovies(movies)
    /\ schedules' = seedInitialSchedules(cinemas, seedInitialMovies(movies), schedules)
    /\ pos' = NoPos
    /\ snap' = [schedules |-> schedules', nMovies |-> Len(movies'), rerun |-> TRUE]
    /\ ev' = [op |-> "start"]
    /\ UNCHANGED <<cinemas, now, utcOffset, pc, site, movie>>

Next ==
    \/ Tick
    \/ \E mode \in Modes : Start(mode)
    \/ \E s \in MainSites : StartCrawl(s)
    \/ Serve
    \/ \E page \in MainCinemaPages, geo \in Geos : CinemaDetail(page, geo)
    \/ CinemasDone
    \/ UpdateStatus
    \/ \E replies \in [DOMAIN movies -> MainDoubanReplies] : FillDouban(replies)
    \/ VisitDetail
    \/ SectionMovie
    \/ \E ext \in MainExts : Enrich(ext)
    \/ SectionCells
    \/ CrawlDone
    \/ CrawlAgain

Spec == Init /\ [][Next]_vars

(***************************************************************************)
(* The status pass on its own: the store holds the cinema of one earlier   *)
(* cinema crawl, the two seed movies and one scraped movie with any status *)
(* and any few play dates; only update-status is run.                      *)
(***************************************************************************)
CinemaP ==
    PageCinema([rawName |-> RawP, address |-> "Shinjuku 3-15-15",
                website |-> "http://p.example", imgs |-> <<>>],
               <<356895, 1396917>>)

StatusDays == (FirstDay - 2)..(FirstDay + Horizon)

StatusDateSets == {S \in SUBSET StatusDays : Cardinality(S) <= MaxDates}

InitStatus ==
    /\ runs = 0
    /\ cinemas = <<CinemaP>>
    /\ \E S \in StatusDateSets, st \in Statuses :
          /\ movies = SeedMovies \o <<[NewMovie(<<"A">>) EXCEPT !.Status = st]>>
          /\ schedules = SetToBag({Sched(3, 1, d, Span1100) : d \in S})
    /\ now \in {[day |-> FirstDay, hour |-> h] : h \in Hours}
    /\ utcOffset \in Offsets
    /\ pc = "idle"
    /\ site = <<>>
    /\ pos = NoPos
    /\ movie = NoMovie
    /\ ev = [op |-> "init"]
    /\ snap = NoSnap

NextStatus ==
    \/ Tick
    \/ \E mode \in {"update-status"} : Start(mode)
    \/ UpdateStatus

SpecStatus == InitStatus /\ [][NextStatus]_vars

(***************************************************************************)
(* The cinema crawl on its own, eiga.com also serving a page whose title   *)
(* is nothing but a bracketed remark.                                      *)
(***************************************************************************)
RawBracketOnly == <<"(", "x", ")">>

CinemaPages ==
    MainCinemaPages \cup
        { [rawName |-> RawBracketOnly, address |-> "Ginza 4-1-1", website |-> "",
           imgs |-> <<>>] }

NextCinema ==
    \/ \E mode \in {"crawl-cinemas"} : Start(mode)
    \/ \E page \in CinemaPages, geo \in Geos : CinemaDetail(page, geo)
    \/ CinemasDone

SpecCinema == Init /\ [][NextCinema]_vars

(***************************************************************************)
(* One schedule crawl on its own, over a store left by earlier runs: the   *)
(* movie A is absent or present with a status and schedule dates that      *)
(* earlier crawls and status passes can leave, and eiga.com serves every   *)
(* small set of dates for it, on one page, in two sections or on two pages.*)
(***************************************************************************)
CinemaQ ==
    PageCinema([rawName |-> RawQ, address |-> "Shibuya 1-5-16", website |-> "",
                imgs |-> <<>>],
               <<356895, 1396917>>)

\* the cells of a weekly table showing the dates D, in calendar order
RECURSIVE CellsOf(_)
CellsOf(D) ==
    IF D = {} THEN <<>>
    ELSE <<Cell(CompactText(Min(D)), <<Span1100>>)>> \o CellsOf(D \ {Min(D)})

PairDays == {FirstDay, FirstDay + 1, FirstDay + 8}

IngestSites ==
    { <<Page(RawP, <<Sec(TitleA, CellsOf(D))>>)>> : D \in StatusDateSets }
    \cup { <<Page(RawP, <<Sec(TitleA, OneCell(d1)), Sec(TitleA, OneCell(d2))>>)>> :
              d1, d2 \in PairDays }
    \cup { <<Page(RawP, <<Sec(TitleA, OneCell(d1))>>),
             Page(RawQ, <<Sec(TitleA, OneCell(d2))>>)>> : d1, d2 \in PairDays }
    \cup { <<Page(RawR, <<Sec(TitleA, OneCell(FirstDay + 1)), Sec(TitleB, OneCell(FirstDay))>>),
             Page(RawP, <<Sec(TitleA, OneCell(FirstDay))>>)>> }
    \cup { <<Page(RawP, <<Sec(TitleA, <<Cell(CompactText(FirstDay + 1),
                                              <<SpanNoColon, <<>>, Span1805, SpanShort>>),
                                         Cell(BadDate, <<Span1100>>),
                                         Cell(CompactText(FirstDay + 2),
                                              <<SpanPadded, <<"~">>, Span1805>>)>>),
                           Sec(TitleB, OneCell(FirstDay))>>)>>,
             <<Page(RawP, <<Sec(TitleA, <<Cell(CompactText(FirstDay + 1),
                                               <<SpanWide, Span1100>>)>>)>>)>>,
             <<Page(RawP, <<Sec(TitleA, <<Cell(BadDate, <<Span1100>>),
                                          Cell(SubSeq(CompactText(FirstDay), 1, 7),
                                               <<Span1805>>)>>)>>)>> }

\* status and play dates of movie A that earlier runs can have left
IngestStores ==
    { [st |-> "showing", S |-> {}], [st |-> "unplanned", S |-> {}],
      [st |-> "showing", S |-> {FirstDay + 8}], [st |-> "future", S |-> {FirstDay + 8}] }

InitIngest ==
    /\ runs = MaxRuns - 1
    /\ cinemas = <<CinemaP, CinemaQ>>
    /\ \/ /\ movies = SeedMovies
          /\ schedules = EmptyBag
       \/ \E store \in IngestStores :
             /\ movies = SeedMovies \o <<[NewMovie(<<"A">>) EXCEPT !.Status = store.st]>>
             /\ schedules = SetToBag({Sched(3, 1, d, Span1805) : d \in store.S})
    /\ now \in {[day |-> FirstDay, hour |-> h] : h \in Hours}
    /\ utcOffset \in Offsets
    /\ pc = "idle"
    /\ site = <<>>
    /\ pos = NoPos
    /\ movie = NoMovie
    /\ ev = [op |-> "init"]
    /\ snap = NoSnap

NextIngest ==
    \/ \E s \in IngestSites : StartCrawl(s)
    \/ VisitDetail
    \/ SectionMovie
    \/ \E ext \in MainExts : Enrich(ext)
    \/ SectionCells
    \/ CrawlDone

SpecIngest == InitIngest /\ [][NextIngest]_vars

(***************************************************************************)
(* The enrichment on its own: after one cinema crawl, schedule crawls that *)
(* meet one title again and again while TMDB and OMDb answer in every way. *)
(***************************************************************************)
DataA ==
    [ NoData EXCEPT
        !.ImdbID = "tt1", !.Title = <<"t">>, !.Overview = <<"o">>, !.PosterPath = "/p.jpg",
        !.ReleaseDate = <<"2", "0", "2", "5", "-", "1", "2", "-", "3", "1">>,
        !.Runtime = 120, !.VoteAverage = 72 ]

DataB ==
    [ NoData EXCEPT
        !.ImdbID = "tt2", !.Title = <<"u">>,
        !.ReleaseDate = <<"2", "0", "2", "4">>, !.VoteAverage = 65 ]

Failures == {NoReply, [kind |-> "decodeerr"]}

EnrichSearches ==
    { NoReply, [kind |-> "ok", Results |-> <<>>],
      [kind |-> "ok", Results |-> <<101, 202>>], [kind |-> "ok", Results |-> <<202>>] }

EnrichDetails ==
    { <<zh, ja, en>> : zh \in {NoReply, Detail(DataA), Detail(DataB), Detail(NoData)},
                       ja \in {[kind |-> "decodeerr"], Detail(DataA)},
                       en \in {NoReply, Detail(DataA), Detail(DataB)} }

EnrichOmdb ==
    { NoReply, [kind |-> "ok", Rating |-> <<"7", ".", "5">>],
      [kind |-> "ok", Rating |-> <<"N", "/", "A">>] }

EnrichExts ==
    { Ext(se, de, om, NoReply) : se \in EnrichSearches, de \in EnrichDetails, om \in EnrichOmdb }

EnrichSites ==
    { <<Page(RawP, <<Sec(TitleA, <<>>), Sec(TitleA, OneCell(FirstDay))>>)>> }

InitEnrich ==
    /\ runs = 1
    /\ cinemas = <<CinemaP>>
    /\ movies = SeedMovies
    /\ schedules = EmptyBag
    /\ now = [day |-> FirstDay, hour |-> Max(Hours)]
    /\ utcOffset = Max(Offsets)
    /\ pc = "idle"
    /\ site = <<>>
    /\ pos = NoPos
    /\ movie = NoMovie
    /\ ev = [op |-> "cinemas-done"]
    /\ snap = NoSnap

NextEnrich ==
    \/ \E s \in EnrichSites : StartCrawl(s)
    \/ VisitDetail
    \/ SectionMovie
    \/ \E ext \in EnrichExts : Enrich(ext)
    \/ SectionCells
    \/ CrawlDone
    \/ CrawlAgain

SpecEnrich == InitEnrich /\ [][NextEnrich]_vars

(***************************************************************************)
(* The merge of the detail replies on its own: one title met by two or     *)
(* more crawls while TMDB answers with release dates of every shape, blank *)
(* texts, genre and crew lists, and cast lists shorter and longer than 8.  *)
(***************************************************************************)
CastNames == <<"c1", "c2", "c3", "c4", "c5", "c6", "c7", "c8", "c9">>

Member(n) ==
    [Name |-> CastNames[n], Character |-> "role", ProfilePath |-> IF n = 1 THEN "/c1.jpg" ELSE ""]

Cast9 == [n \in 1..9 |-> Member(n)]

Cast2 == <<Member(9), Member(8)>>

\* a release_date that is no date, a blank overview, a genre without a name
DataOdd ==
    [ NoData EXCEPT
        !.Title = <<"t">>, !.Overview = <<" ">>,
        !.ReleaseDate = <<"T", "B", "A", " ", "2", "0", "2", "6">>,
        !.Genres = << <<" ">> >>, !.Cast = Cast9 ]

\* a release_date that is only a year
DataYear ==
    [ NoData EXCEPT
        !.ImdbID = "tt2", !.Title = <<"u">>, !.Overview = <<"o2">>,
        !.PosterPath = "/y.jpg", !.BackdropPath = "/yb.jpg",
        !.ReleaseDate = <<"2", "0", "2", "4">>, !.Runtime = 90, !.VoteAverage = 65,
        !.Genres = << <<"Drama">>, <<" ">>, <<"War">> >>,
        !.Cast = Cast2,
        !.Crew = << [Name |-> "w", Job |-> "Writer"], [Name |-> "d1", Job |-> "Director"],
                    [Name |-> "d2", Job |-> "Director"] >> ]

\* a release_date on a day the calendar does not have
DataJa ==
    [ NoData EXCEPT
        !.Title = <<"j">>, !.Overview = <<"oj">>, !.BackdropPath = "/jb.jpg",
        !.ReleaseDate = <<"2", "0", "2", "3", "-", "0", "2", "-", "2", "9">>,
        !.Runtime = 95, !.Genres = << <<"Anime">> >>, !.Cast = Cast2,
        !.Crew = << [Name |-> "dj", Job |-> "Director"] >> ]

MergeDetails ==
    { <<zh, ja, en>> : zh \in {NoReply, Detail(DataOdd), Detail(DataYear), Detail(DataA)},
                       ja \in {NoReply, Detail(DataJa), Detail(DataOdd)},
                       en \in {NoReply, Detail(DataYear), Detail(DataOdd)} }

MergeExts ==
    { Ext([kind |-> "ok", Results |-> <<101>>], de, NoReply, NoReply) : de \in MergeDetails }

MergeSites == { <<Page(RawP, <<Sec(TitleA, OneCell(FirstDay))>>)>> }

NextMerge ==
    \/ \E s \in MergeSites : StartCrawl(s)
    \/ VisitDetail
    \/ SectionMovie
    \/ \E ext \in MergeExts : Enrich(ext)
    \/ SectionCells
    \/ CrawlDone
    \/ CrawlAgain

SpecMerge == InitEnrich /\ [][NextMerge]_vars

(***************************************************************************)
(* The Douban backfill on its own: the store holds one movie that an       *)
(* enrichment call has completed but for its Douban rating, and the search *)
(* page lists up to two results, matching or not, rated or not.            *)
(***************************************************************************)
DoubanMovie ==
    enrichMovieRatings(NewMovie(<<"A">>),
                       Ext([kind |-> "ok", Results |-> <<101>>],
                           <<Detail(DataFull), Detail(DataFull), Detail(DataFull)>>,
                           [kind |-> "ok", Rating |-> <<"7", ".", "5">>], NoReply)).m

DoubanEntries ==
    { [title |-> <<"t">>, meta |-> <<"2", "0", "2", "5">>, rating |-> <<>>],
      [title |-> <<"a", "t">>, meta |-> <<"1", "9", "9", "9">>, rating |-> <<"8", ".", "8">>],
      [title |-> <<"z">>, meta |-> <<"2", "0", "2", "5", " ", "x">>, rating |-> <<"6", ".", "5">>],
      [title |-> <<"z">>, meta |-> <<"1", "9", "9", "9">>, rating |-> <<"7", ".", "0">>] }

DoubanReplies ==
    {NoReply}
      \cup { [kind |-> "ok", entries |-> es] :
               es \in {<<>>} \cup {<<a>> : a \in DoubanEntries}
                        \cup {<<a, b>> : a, b \in DoubanEntries} }

InitDouban ==
    /\ runs = 1
    /\ cinemas = <<CinemaP>>
    /\ movies = SeedMovies \o <<DoubanMovie>>
    /\ schedules = EmptyBag
    /\ now \in {[day |-> FirstDay, hour |-> h] : h \in Hours}
    /\ utcOffset \in Offsets
    /\ pc = "idle"
    /\ site = <<>>
    /\ pos = NoPos
    /\ movie = NoMovie
    /\ ev = [op |-> "init"]
    /\ snap = NoSnap

NextDouban ==
    \/ \E mode \in {"fill-douban"} : Start(mode)
    \/ \E r \in DoubanReplies :
          FillDouban([i \in DOMAIN movies |-> IF NeedsDouban(movies[i]) THEN r ELSE NoReply])

SpecDouban == InitDouban /\ [][NextDouban]_vars

(***************************************************************************)
(* Properties                                                              *)
(***************************************************************************)
\* the play dates of movie i's persisted Schedule rows
S(i) == PlayDatesOf(schedules, i)

\* the reference date: the local calendar day of the clock
T == now.day

\* the state right after a complete update-status pass, the clock not yet moved
AfterStatusPass == pc = "idle" /\ ev.op = "update-status"

\* C1: when a run of the program has ended (seeding, ingestion with its
\* enrichment calls, or a full-batch pass), every Movie's stored status equals
\* the status derived from its persisted Schedule dates and today's date.
C1_StatusFollowsSchedules ==
    (pc = "idle" /\ ev.op # "tick") =>
        \A i \in DOMAIN movies :
            movies[i].Status = FullBatchStatus(S(i), now, utcOffset)

\* C2: after the full-batch pass, every Movie without Schedule rows is
\* `unplanned`.
C2_EmptyIsUnplanned ==
    AfterStatusPass =>
        \A i \in DOMAIN movies : S(i) = {} => movies[i].Status = "unplanned"

C2_Witness ==
    /\ AfterStatusPass
    /\ ev.updatedCount > 0
    /\ \E i \in DOMAIN movies : S(i) = {} /\ movies[i].Status = "unplanned"

\* C3: after the full-batch pass, every Movie whose latest play date is before
\* today is `unplanned`, although it has dates on or before today.
C3_LapsedIsUnplanned ==
    AfterStatusPass =>
        \A i \in DOMAIN movies :
            (S(i) # {} /\ Max(S(i)) < T) => movies[i].Status = "unplanned"

C3_Witness ==
    /\ AfterStatusPass
    /\ ev.updatedCount > 0
    /\ \E i \in DOMAIN movies :
          /\ Cardinality(S(i)) > 1
          /\ Max(S(i)) = T - 1
          /\ movies[i].Status = "unplanned"

\* C4 as claimed: after the full-batch pass, every Movie with some play date
\* on or before today is `showing`.
C4_PastOrTodayIsShowing ==
    AfterStatusPass =>
        \A i \in DOMAIN movies :
            (\E d \in S(i) : d <= T) => movies[i].Status = "showing"

\* C4 amended: after the full-batch pass, every Movie with some play date on
\* or before today and a latest play date not before today is `showing`.
C4_CurrentIsShowing ==
    AfterStatusPass =>
        \A i \in DOMAIN movies :
            ((\E d \in S(i) : d <= T) /\ Max(S(i)) >= T) => movies[i].Status = "showing"

C4_Witness ==
    /\ AfterStatusPass
    /\ ev.updatedCount > 0
    /\ \E i \in DOMAIN movies :
          /\ \E d \in S(i) : d < T
          /\ Max(S(i)) > T
          /\ movies[i].Status = "showing"

\* C5: after the full-batch pass, every Movie whose earliest play date is
\* from tomorrow to today + 7 is `incoming`.
C5_WithinWeekIsIncoming ==
    AfterStatusPass =>
        \A i \in DOMAIN movies :
            (S(i) # {} /\ Min(S(i)) > T /\ Min(S(i)) <= T + 7)
                => movies[i].Status = "incoming"

\* C6: after the full-batch pass, a Movie is `future` exactly when its
\* earliest play date is after today + 7.
C6_BeyondWeekIsFuture ==
    AfterStatusPass =>
        \A i \in DOMAIN movies :
            movies[i].Status = "future" <=> (S(i) # {} /\ Min(S(i)) > T + 7)

\* C7: there is at most one Schedule row per (movie, cinema, play date, start
\* time) and one Movie per non-empty native title, and a crawl run again on
\* the same pages creates no Schedule row and no Movie row.
C7_Idempotent ==
    /\ \A r \in BagToSet(schedules) : CopiesIn(r, schedules) = 1
    /\ \A i, j \in DOMAIN movies :
          (movies[i].TitleJP # <<>> /\ movies[i].TitleJP = movies[j].TitleJP) => i = j
    /\ snap.rerun => (schedules = snap.schedules /\ Len(movies) = snap.nMovies)

C7_Witness ==
    /\ snap.rerun
    /\ ev.op = "cells"
    /\ Cardinality({r \in BagToSet(schedules) : r.MovieID = ev.id}) > 1
    /\ Len(movies) > Len(SeedMovies)

\* the step in which enrichMovieRatings runs on the in-memory movie
EnrichStep(P(_, _, _, _)) ==
    (pc = "enrich" /\ pc' = "cells")
        => P(movies[movie.ID], movies'[movie.ID], movie'.rec, ev')

RatingFields == {"TMDBRating", "IMDBRating", "DoubanRating"}

RatingsKept(old, new, mem, e) ==
    \A f \in RatingFields : old[f] # 0 => (new[f] = old[f] /\ mem[f] = old[f])

\* C8: no call of enrichMovieRatings changes a rating field (TMDB, IMDb,
\* Douban) of a Movie that was already nonzero.
C8_RatingsFirstWriterWins == [][EnrichStep(RatingsKept)]_vars

IdsKept(old, new, mem, e) ==
    /\ old.TMDBID # 0 => (new.TMDBID = old.TMDBID /\ mem.TMDBID = old.TMDBID)
    /\ old.IMDBID # "" => (new.IMDBID = old.IMDBID /\ mem.IMDBID = old.IMDBID)

\* C9: no call of enrichMovieRatings clears or replaces a Movie's TMDBID once
\* nonzero or its IMDBID once non-empty.
C9_IdsWriteOnce == [][EnrichStep(IdsKept)]_vars

ShortCircuit(old, new, mem, e) ==
    (old.TitleCN # <<>> /\ old.TitleEN # <<>> /\ old.TMDBRating > 0
        /\ old.ReleaseDate # ZeroTime)
        => (new = old /\ mem = old /\ movies' = movies /\ e.calls = 0 /\ ~e.saved)

\* C10: called on a Movie with translated title, alternate title, TMDB rating
\* above 0 and a release date, enrichMovieRatings makes no external call,
\* changes no field and does not write to the store.
C10_ShortCircuit == [][EnrichStep(ShortCircuit)]_vars

C10_Witness ==
    /\ ev.op = "enrich"
    /\ ev.short
    /\ movie.rec.TitleJP = <<"A">>
    /\ movie.rec.TMDBRating > 0

\* C11: no step of any mode (seeding, cinema sync, schedule sync, Douban
\* backfill, status pass) removes a Schedule row or changes its movie, cinema,
\* play date or start time: every row stays, with at least as many copies.
C11_SchedulesAppendOnly ==
    [][\A r \in BagToSet(schedules) :
          r \in BagToSet(schedules') /\ CopiesIn(r, schedules') >= CopiesIn(r, schedules)]_vars

C11_Witness ==
    /\ ev.op = "cells"
    /\ BagCardinality(snap.schedules) > 0
    /\ BagCardinality(schedules) > BagCardinality(snap.schedules)
    /\ \A r \in BagToSet(snap.schedules) : CopiesIn(r, schedules) = 1

\* the step in which the cinema crawl handles one detail page
CinemaStep(P(_, _, _)) ==
    (pc = "crawl-cinemas" /\ ev'.op = "cinema" /\ ev'.rawName # <<>>)
        => P(cinemas, cinemas', StripBrackets(ev'.rawName))

OnlyNamedCinema(old, new, nameJP) ==
    /\ Len(new) >= Len(old)
    /\ \A i \in DOMAIN old : new[i] # old[i] => old[i].NameJP = nameJP
    /\ \A i \in DOMAIN new : i > Len(old) => new[i].NameJP = nameJP
    /\ \A i, j \in DOMAIN new : new[i].NameJP = new[j].NameJP => i = j

\* C12: a cinema-sync step keeps at most one Cinema per native name and
\* creates or changes only the Cinema whose name is the page's normalized
\* name.
C12_CinemaIdentity == [][CinemaStep(OnlyNamedCinema)]_vars

CrawlPcs == {"crawl-schedules", "section", "enrich", "cells"}

WritesShowingOrIncoming ==
    pc \in CrawlPcs =>
        \A i \in DOMAIN movies' :
            (i \notin DOMAIN movies \/ movies'[i].Status # movies[i].Status)
                => movies'[i].Status \in {"showing", "incoming"}

\* C13: no step of a schedule crawl sets a Movie's status to anything but
\* `showing` or `incoming`, and a Movie it creates has one of the two.
C13_IngestionWritesShowingOrIncoming == [][WritesShowingOrIncoming]_vars

C13_Witness ==
    /\ ev.op = "cells"
    /\ ev.wrote
    /\ ev.keys # {}
    /\ \A k \in ev.keys : KeyDay(k) > T + 8
    /\ movies[ev.id].Status = "showing"

\* the dates collected in the section just handled
SeenInSection == {KeyDay(k) : k \in ev.keys}

\* C14: after a section that collected the non-empty date set D, the Movie is
\* `showing` if some date of D is today or earlier, `incoming` if the earliest
\* is from tomorrow to today + 7, and `showing` if the earliest is later.
C14_IncrementalMapping ==
    (ev.op = "cells" /\ ev.keys # {}) =>
        movies[ev.id].Status =
            IF \E d \in SeenInSection : d <= T THEN "showing"
            ELSE IF Min(SeenInSection) <= T + 7 THEN "incoming"
            ELSE "showing"

\* C15: when a section has collected exactly the Movie's persisted play dates
\* S, with max(S) >= today and min(S) <= today + 7, the status the crawl
\* leaves is the status the full-batch pass derives from S at the same clock.
C15_ModesAgree ==
    (/\ ev.op = "cells"
     /\ ev.keys # {}
     /\ S(ev.id) = SeenInSection
     /\ Max(SeenInSection) >= T
     /\ Min(SeenInSection) <= T + 7)
        => movies[ev.id].Status = FullBatchStatus(S(ev.id), now, utcOffset)

\* the dates of the cells that parse, as a set
CellDays(cells) ==
    {CellDate(cells[n]).day : n \in {k \in DOMAIN cells : CellDate(cells[k]).ok}}

\* every play date the pass over `site` has seen for the title, on all pages
\* whose cinema the store knows
SeenInPass(titleJP) ==
    UNION { UNION { CellDays(site[p].sections[n].cells) :
                      n \in { k \in DOMAIN site[p].sections :
                                TrimSpace(site[p].sections[k].title) = titleJP } } :
              p \in { q \in DOMAIN site :
                        /\ site[q].rawName # <<>>
                        /\ FindCinema(cinemas, StripBrackets(site[q].rawName)) # 0 } }

PassStatusFromAllDates ==
    (pc = "crawl-schedules" /\ pc' = "idle") =>
        \A i \in DOMAIN movies :
            (movies[i].TitleJP # <<>> /\ SeenInPass(movies[i].TitleJP) # {})
                => movies'[i].Status =
                     IncrementalStatus({Format(d) : d \in SeenInPass(movies[i].TitleJP)},
                                       now, utcOffset)

\* C16: when a schedule crawl ends, each Movie it saw has the status that the
\* incremental derivation gives for all play dates seen for it in the whole
\* pass, whatever the order of pages and sections.
C16_PassStatusFromAllDates == [][PassStatusFromAllDates]_vars

\* the movies whose stored status a step changes
StatusChanged == {i \in DOMAIN movies : movies'[i].Status # movies[i].Status}

\* a section's status derivation writes exactly when the status changes
IncrementalWrite ==
    pc = "cells" =>
        /\ ev'.wrote <=> StatusChanged # {}
        /\ ~ev'.wrote => movies' = movies

\* the full-batch pass counts exactly the movies whose status changes
FullBatchWrite ==
    (pc = "update-status" /\ pc' = "idle") =>
        /\ ev'.updatedCount = Cardinality(StatusChanged)
        /\ \A i \in DOMAIN movies : i \notin StatusChanged => movies'[i] = movies[i]

\* C17: in both modes the status is written, and the transition counted, only
\* for a Movie whose computed status differs from the stored one.
C17_WriteOnlyOnChange == [][IncrementalWrite /\ FullBatchWrite]_vars

C17_Witness ==
    /\ AfterStatusPass
    /\ ev.updatedCount > 0
    /\ ev.updatedCount < Len(movies)
    /\ Len(movies) > Len(SeedMovies)

\* the page a VisitDetail step is about to handle names no stored Cinema
UnknownCinemaNext ==
    /\ pc = "crawl-schedules"
    /\ pos.page < Len(site)
    /\ site[pos.page + 1].rawName # <<>>
    /\ \A i \in DOMAIN cinemas :
          cinemas[i].NameJP # StripBrackets(site[pos.page + 1].rawName)

MissingCinemaSkips ==
    /\ (UnknownCinemaNext /\ pos'.page = pos.page + 1) =>
          /\ movies' = movies
          /\ schedules' = schedules
          /\ pc' = "crawl-schedules"
          /\ movie' = NoMovie
    /\ pc \in CrawlPcs => cinemas' = cinemas

\* C18: a detail page whose normalized cinema name matches no Cinema is
\* skipped: no Movie or Schedule row is created, no enrichment runs, no status
\* changes; and no step of a schedule crawl creates or changes a Cinema.
C18_MissingCinemaSkipsPage == [][MissingCinemaSkips]_vars

C18_Witness ==
    /\ ev.op = "page-skipped"
    /\ pos.page = 1
    /\ Len(site) > 1
    /\ site[1].sections # <<>>
    /\ site[1].rawName # <<>>
    /\ \A i \in DOMAIN cinemas : cinemas[i].NameJP # StripBrackets(site[1].rawName)
    /\ \E n \in DOMAIN site[1].sections :
          FindMovie(movies, TrimSpace(site[1].sections[n].title)) = 0

\* the call gets past the guards at the top of enrichMovieRatings
Incomplete(m) ==
    /\ ~(m.TitleCN # <<>> /\ m.TitleEN # <<>> /\ m.TMDBRating > 0 /\ m.ReleaseDate # ZeroTime)
    /\ TrimSpace(m.TitleJP) # <<>>

\* the title search delivered an identifier
HasId(search) == search.kind = "ok" /\ search.Results # <<>>

\* the locales (positions in Langs) whose detail request succeeded
OkLangs(ext) == {i \in DOMAIN Langs : ext.details[i].kind = "ok"}

\* the imdb_id the successful zh-CN and en-US replies deliver first, "" if none
DeliveredImdbID(ext) ==
    LET with == {i \in OkLangs(ext) \ {2} : ext.details[i].data.ImdbID # ""}
    IN  IF with = {} THEN "" ELSE ext.details[Min(with)].data.ImdbID

BestEffort(old, new, mem, e) ==
    (Incomplete(old) /\ HasId(e.ext.search)) =>
        /\ e.saved
        /\ new = mem
        /\ e.calls >= 1 + Len(Langs)
        /\ (1 \in OkLangs(e.ext) /\ e.ext.details[1].data.Title # <<>>)
              => mem.TitleCN = e.ext.details[1].data.Title
        /\ (3 \in OkLangs(e.ext) /\ e.ext.details[3].data.Title # <<>>)
              => mem.TitleEN = e.ext.details[3].data.Title
        /\ (old.TMDBRating = 0
              /\ \E i \in OkLangs(e.ext) : e.ext.details[i].data.VoteAverage > 0)
              => mem.TMDBRating > 0
        /\ (DeliveredImdbID(e.ext) # "" /\ e.ext.omdb.kind = "ok")
              => /\ mem.IMDBID = DeliveredImdbID(e.ext)
                 /\ mem.IMDBRating = ParseFloat(e.ext.omdb.Rating)

\* C19: once the title search has returned an identifier, every detail reply
\* that succeeds is merged and the rating lookup is applied whichever other
\* requests fail, and the record is saved at the end of the call.
C19_BestEffort == [][EnrichStep(BestEffort)]_vars

C19_Witness ==
    /\ ev.op = "enrich"
    /\ ev.saved
    /\ HasId(ev.ext.search)
    /\ OkLangs(ev.ext) = {3}
    /\ ev.ext.omdb.kind # "ok"
    /\ movie.rec.TitleEN = ev.ext.details[3].data.Title
    /\ movie.rec.TitleCN = <<>>
    /\ movies[movie.ID] = movie.rec

NoIdAborts(old, new, mem, e) ==
    Incomplete(old) =>
        /\ e.calls >= 1
        /\ ~HasId(e.ext.search)
              => (new = old /\ mem = old /\ movies' = movies /\ ~e.saved /\ e.calls = 1)

\* C20: when the title search returns no identifier or fails, the call makes
\* no other request, changes no field and does not write to the store; and
\* every call on a record that is still incomplete issues the search.
C20_NoSearchResultAborts == [][EnrichStep(NoIdAborts)]_vars

C20_Witness ==
    /\ ev.op = "enrich"
    /\ snap.rerun
    /\ ~HasId(ev.ext.search)
    /\ ev.calls = 1
    /\ movie.rec = NewMovie(<<"A">>)
    /\ movies[movie.ID] = movie.rec

YearHasDate(old, new, mem, e) ==
    (Incomplete(old) /\ HasId(e.ext.search)) =>
        /\ new = mem
        /\ mem.Year # <<>> => mem.ReleaseDate # ZeroTime

\* C21: after an enrichment call that got past the title search, a Movie with
\* a non-empty year string has a non-zero release date, whatever release_date
\* strings the detail replies carried.
C21_ReleaseDateFallback == [][EnrichStep(YearHasDate)]_vars

FillFields ==
    {"Synopsis", "Poster", "Backdrop", "Year", "ReleaseDate", "Runtime", "Genre", "Director"}

\* the value a detail response supplies for a field, the field's zero value
\* when it supplies none (a blank overview, a release_date that is no date)
Supplied(f, data) ==
    CASE f = "Synopsis" -> IF \E n \in DOMAIN data.Overview : ~IsSpace(data.Overview[n])
                           THEN data.Overview ELSE <<>>
      [] f = "Poster" -> IF data.PosterPath # ""
                         THEN <<"https://image.tmdb.org/t/p/w500", data.PosterPath>> ELSE <<>>
      [] f = "Backdrop" -> IF data.BackdropPath # ""
                           THEN <<"https://image.tmdb.org/t/p/original", data.BackdropPath>>
                           ELSE <<>>
      [] f = "Year" -> IF Len(data.ReleaseDate) >= 4
                       THEN [n \in 1..4 |-> data.ReleaseDate[n]] ELSE <<>>
      [] f = "ReleaseDate" -> ParseDashed(data.ReleaseDate).date
      [] f = "Runtime" -> data.Runtime
      [] f = "Genre" -> GenreText(data.Genres)
      [] f = "Director" -> FirstDirector(data.Crew)

\* the locales, in the order of Langs, whose successful response supplies f
Suppliers(f, ext) ==
    {i \in OkLangs(ext) : Supplied(f, ext.details[i].data) # ZeroMovie[f]}

FillOnlyIfUnset(old, new, mem, e) ==
    \A f \in FillFields :
        /\ old[f] # ZeroMovie[f] => (new[f] = old[f] /\ mem[f] = old[f])
        /\ (/\ Incomplete(old) /\ HasId(e.ext.search)
            /\ old[f] = ZeroMovie[f]
            /\ Suppliers(f, e.ext) # {})
              => /\ mem[f] = Supplied(f, e.ext.details[Min(Suppliers(f, e.ext))].data)
                 /\ new[f] = mem[f]

\* C22: enrichment never changes a synopsis, poster, backdrop, year, release
\* date, runtime, genre or director that is already set; within one call the
\* first locale in the order zh-CN, ja-JP, en-US that supplies a value fills an
\* unset field, and a value of an earlier call is kept.
C22_FillOnlyIfUnset == [][EnrichStep(FillOnlyIfUnset)]_vars

C22_Witness ==
    /\ ev.op = "enrich"
    /\ snap.rerun
    /\ ev.saved
    /\ ev.ext.details[1] = Detail(DataA)
    /\ ev.ext.details[2].kind = "ok"
    /\ movie.rec.TitleCN = DataA.Title
    /\ movie.rec.Synopsis = DataJa.Overview
    /\ movie.rec.Runtime = DataJa.Runtime
    /\ movie.rec.Poster = <<"https://image.tmdb.org/t/p/w500", DataA.PosterPath>>
    /\ movies[movie.ID] = movie.rec

\* the title the response of locale i carries, <<>> when the request failed
ReplyTitle(ext, i) == IF i \in OkLangs(ext) THEN ext.details[i].data.Title ELSE <<>>

TitleMerge(old, new, mem, e) ==
    /\ new.TitleJP = mem.TitleJP /\ new.TitleCN = mem.TitleCN /\ new.TitleEN = mem.TitleEN
    /\ old.TitleJP # <<>> => mem.TitleJP = old.TitleJP
    /\ mem.TitleJP # old.TitleJP => mem.TitleJP = ReplyTitle(e.ext, 2)
    /\ (Incomplete(old) /\ HasId(e.ext.search))
          => /\ mem.TitleCN = IF ReplyTitle(e.ext, 1) # <<>> THEN ReplyTitle(e.ext, 1)
                              ELSE old.TitleCN
             /\ mem.TitleEN = IF ReplyTitle(e.ext, 3) # <<>> THEN ReplyTitle(e.ext, 3)
                              ELSE old.TitleEN

\* C23: enrichment never changes a native title that is set (it may only be
\* backfilled from the ja-JP response when empty), while each call that
\* reaches the detail requests overwrites the translated title with a
\* non-empty zh-CN title and the alternate title with a non-empty en-US title.
C23_TitleMerge == [][EnrichStep(TitleMerge)]_vars

C23_Witness ==
    /\ ev.op = "enrich"
    /\ snap.rerun
    /\ ev.saved
    /\ ev.ext.details[1] = Detail(DataYear)
    /\ ev.ext.details[2] = Detail(DataJa)
    /\ movie.rec.TitleCN = DataYear.Title
    /\ movie.rec.Synopsis = DataA.Overview
    /\ movie.rec.TitleJP = <<"A">>
    /\ movies[movie.ID] = movie.rec

\* the locales that may fill the cast list and whose response lists a cast
CastSuppliers(ext) == {i \in OkLangs(ext) \ {2} : ext.details[i].data.Cast # <<>>}

\* the entries a cast list of a response turns into, all of them
CastEntries(cast) ==
    [n \in DOMAIN cast |->
        [name |-> cast[n].Name, role |-> cast[n].Character,
         img  |-> IF cast[n].ProfilePath = "" THEN <<>>
                  ELSE <<"https://image.tmdb.org/t/p/w185", cast[n].ProfilePath>>]]

CastOnce(old, new, mem, e) ==
    /\ new.CastJSON = mem.CastJSON
    /\ Len(mem.CastJSON) <= 8
    /\ old.CastJSON # <<>> => mem.CastJSON = old.CastJSON
    /\ (old.CastJSON = <<>> /\ mem.CastJSON # <<>>)
          => /\ CastSuppliers(e.ext) # {}
             /\ LET cast == e.ext.details[Min(CastSuppliers(e.ext))].data.Cast
                    k    == IF Len(cast) < 8 THEN Len(cast) ELSE 8
                IN  mem.CastJSON = [n \in 1..k |-> CastEntries(cast)[n]]
    /\ (Incomplete(old) /\ HasId(e.ext.search) /\ old.CastJSON = <<>>
          /\ CastSuppliers(e.ext) # {})
          => mem.CastJSON # <<>>

\* C24: a cast list is filled at most once and never changed afterwards, only
\* from the zh-CN or en-US response and never from ja-JP, and holds the first
\* min(8, n) cast members of that response in order, so at most 8.
C24_CastList == [][EnrichStep(CastOnce)]_vars

C24_Witness ==
    /\ ev.op = "enrich"
    /\ ev.saved
    /\ 1 \notin OkLangs(ev.ext)
    /\ ev.ext.details[2] = Detail(DataJa)
    /\ ev.ext.details[3] = Detail(DataOdd)
    /\ Len(movie.rec.CastJSON) = 8
    /\ movie.rec.CastJSON[8].name = CastNames[8]
    /\ movies[movie.ID] = movie.rec

\* the start time of a span as claimed: the text before the first "~" or space
ClaimedStart(spanText) ==
    LET text == TrimSpace(spanText)
        stop == {n \in DOMAIN text : text[n] = "~" \/ text[n] = " "}
    IN  IF stop = {} THEN text ELSE [n \in 1..(Min(stop) - 1) |-> text[n]]

\* the rows the cells of one section give: one per span whose start time is
\* not empty, has at least 4 characters and a ":"
ClaimedRows(cells, mid, cid) ==
    UNION { { Sched(mid, cid, CellDate(cells[c]).day, ClaimedStart(cells[c].spans[n])) :
                n \in { k \in DOMAIN cells[c].spans :
                          /\ Len(ClaimedStart(cells[c].spans[k])) >= 4
                          /\ Contains(ClaimedStart(cells[c].spans[k]), ":") } } :
            c \in { k \in DOMAIN cells : CellDate(cells[k]).ok } }

TimeSlotsParsed ==
    pc = "cells" =>
        /\ BagToSet(schedules') =
              BagToSet(schedules)
                \cup ClaimedRows(site[pos.page].sections[pos.sec].cells, movie.ID, pos.cinema)
        /\ pc' = AfterSection.pc

\* C25: the cells of a section add exactly one Schedule row per time span
\* whose text before the first "~" or space is not empty, has at least 4
\* characters and contains ":", with that text as start time; a span that fails
\* the test adds none, and the spans, cells and sections after it are handled
\* as if it were not there.
C25_TimeSlotParsing == [][TimeSlotsParsed]_vars

\* the rating as claimed: that of the first result, in page order, whose
\* metadata contains the year or whose title contains the query title
ClaimedDouban(title, year, reply) ==
    IF reply.kind # "ok" THEN 0
    ELSE LET match == {n \in DOMAIN reply.entries :
                          \/ HasSubstring(reply.entries[n].meta, year)
                          \/ HasSubstring(reply.entries[n].title, title)}
         IN  IF match = {} THEN 0 ELSE ParseFloat(reply.entries[Min(match)].rating)

FirstMatchWins ==
    (pc = "fill-douban" /\ pc' = "idle") =>
        \A i \in DOMAIN movies :
            NeedsDouban(movies[i]) =>
                LET score == ClaimedDouban(movies[i].TitleEN, movies[i].Year, ev'.replies[i])
                IN  movies'[i].DoubanRating =
                        IF score > 0 THEN score ELSE movies[i].DoubanRating

\* C26: the rating the Douban lookup returns, and the backfill stores when it
\* is above 0, is that of the first search result in page order whose metadata
\* contains the year or whose title contains the query title; later matching
\* results are ignored, and without a matching result the rating is 0.
C26_DoubanFirstMatch == [][FirstMatchWins]_vars

\* the dates of the cells that parse and hold at least one valid time span
DaysWithSlot(cells) ==
    {CellDate(cells[c]).day :
        c \in {k \in DOMAIN cells :
                 /\ CellDate(cells[k]).ok
                 /\ \E n \in DOMAIN cells[k].spans : StartTime(cells[k].spans[n]).ok}}

DerivationDatesPersisted ==
    pc = "cells" =>
        /\ \A k \in ev'.keys :
              \E r \in BagToSet(schedules') :
                  r.MovieID = movie.ID /\ r.CinemaID = pos.cinema /\ r.PlayDate = KeyDay(k)
        /\ movies'[movie.ID].Status =
              SectionStatus(movie.rec.Status,
                            {Format(d) : d \in DaysWithSlot(site[pos.page].sections[pos.sec].cells)},
                            now, utcOffset)

\* C27: every date that enters a section's status derivation is the play date
\* of a persisted Schedule row of that movie and cinema, and the status the
\* section leaves is the one derived from the dates of the cells that hold a
\* valid time span: a date cell without one has no influence.
C27_DerivationDatesPersisted == [][DerivationDatesPersisted]_vars

\* the clock readings of the local calendar day T
ClocksOfToday == {[day |-> T, hour |-> h] : h \in Hours}

\* C28: the status depends on calendar dates only: the status a section
\* leaves, and the status the full-batch derivation gives for the movie's
\* persisted dates, are the same at every time of day and every UTC offset of
\* the same local day; an earliest date of today + 7 gives `incoming`, one of
\* today + 8 never does.
C28_CalendarDatesOnly ==
    (ev.op = "cells" /\ ev.keys # {}) =>
        /\ \A w \in ClocksOfToday, off \in Offsets :
              /\ movies[ev.id].Status = IncrementalStatus(ev.keys, w, off)
              /\ FullBatchStatus(S(ev.id), w, off) = FullBatchStatus(S(ev.id), now, utcOffset)
        /\ Min(SeenInSection) = T + 7 => movies[ev.id].Status = "incoming"
        /\ Min(SeenInSection) = T + 8 => movies[ev.id].Status # "incoming"
        /\ (S(ev.id) # {} /\ Min(S(ev.id)) = T + 7)
              => FullBatchStatus(S(ev.id), now, utcOffset) = "incoming"
        /\ (S(ev.id) # {} /\ Min(S(ev.id)) = T + 8)
              => FullBatchStatus(S(ev.id), now, utcOffset) # "incoming"

\* what a second pass on the same local day, now or later, would leave
SecondPass(w) == updateMovieStatusFromSchedules(movies', schedules', w, utcOffset)

FullBatchFrame ==
    (pc = "update-status" /\ pc' = "idle") =>
        /\ schedules' = schedules
        /\ cinemas' = cinemas
        /\ Len(movies') = Len(movies)
        /\ \A i \in DOMAIN movies : [movies'[i] EXCEPT !.Status = movies[i].Status] = movies[i]
        /\ \A w \in ClocksOfToday : w.hour >= now.hour => SecondPass(w) = movies'

\* C29: the full-batch pass creates, deletes or changes no Schedule and no
\* Cinema, creates or deletes no Movie and changes no Movie field but the
\* status; and a second pass with the same reference date changes nothing.
C29_FullBatchFrame == [][FullBatchFrame]_vars

\* the section at pos has no date cell that parses
NoDateCell == CellDays(site[pos.page].sections[pos.sec].cells) = {}

NoDateKeepsStatus ==
    /\ pc = "section" =>
          /\ \A i \in DOMAIN movies : movies'[i] = movies[i]
          /\ \A i \in DOMAIN movies' :
                i \notin DOMAIN movies
                    => movies'[i].Status = "showing" /\ PlayDatesOf(schedules', i) = {}
    /\ pc = "enrich" =>
          /\ DOMAIN movies' = DOMAIN movies
          /\ \A i \in DOMAIN movies : movies'[i].Status = movies[i].Status
          /\ movie'.rec.Status = movie.rec.Status
          /\ schedules' = schedules
    /\ (pc = "cells" /\ NoDateCell) =>
          /\ movies' = movies
          /\ schedules' = schedules
          /\ ev'.keys = {} /\ ~ev'.wrote

\* C30: a section without a parseable date cell leaves the stored status as
\* it was: a Movie found keeps its status through the lookup, the enrichment
\* and the cells (also `unplanned` or `future`), and a Movie created by the
\* section stays `showing` with no Schedule row.
C30_NoDateKeepsStatus == [][NoDateKeepsStatus]_vars

C30_Witness ==
    /\ ev.op = "cells"
    /\ ev.keys = {}
    /\ ~ev.wrote
    /\ movies[ev.id].Status \in {"unplanned", "future"}
    /\ \E p \in DOMAIN site : \E n \in DOMAIN site[p].sections :
          /\ site[p].sections[n].cells # <<>>
          /\ CellDays(site[p].sections[n].cells) = {}

====
